---- MODULE Spec2Model ----
(***************************************************************************)
(* Model of model/ner_learner.py: the NERLearner life cycle (construction, *)
(* fit / train / test / evaluate / predict / fine_tune / save), the layer  *)
(* freezing policy, and the module level helpers create_mask,              *)
(* mask_targets and load_ner_model.                                        *)
(***************************************************************************)
EXTENDS Integers, Sequences, FiniteSets, TLC

VARIABLES
    \* ---- create_mask (pure function, specification SpecMask)
    m_pc, m_sequence_lengths, m_size0, m_size1, m_batch_first, m_cuda, m_result,
    \* ---- freeze_to / unfreeze (specification SpecFreeze)
    trainable, calls, emb_group,
    \* ---- load_ner_model / NERLearner.load (specification SpecLoad)
    l_pc, live, ckpt, l_raised,
    \* ---- NERLearner life cycle (specifications Spec and SpecEval)
    cuda_available, batch_size, nepochs, train_data, dev_data, test_data,
    pc, use_cuda, cuda_calls, training, disk, call, outcome, ncalls,
    epoch, gen_train, gen_val, lp, metrics, mode_log

maskVars   == <<m_pc, m_sequence_lengths, m_size0, m_size1, m_batch_first, m_cuda, m_result>>
freezeVars == <<trainable, calls, emb_group>>
loadVars   == <<l_pc, live, ckpt, l_raised>>
inputs     == <<cuda_available, batch_size, nepochs, train_data, dev_data, test_data>>
mainVars   == <<inputs, pc, use_cuda, cuda_calls, training, disk, call, outcome, ncalls,
                epoch, gen_train, gen_val, lp, metrics, mode_log>>
otherVars  == <<maskVars, freezeVars, loadVars>>
vars       == <<maskVars, freezeVars, loadVars, mainVars>>

\* ------------------------------------------------------------------ bounds
MaskMaxLen   == 2      \* largest time dimension of a target tensor
MaskMaxBatch == 2      \* largest batch dimension / length of sequence_lengths
NGroups      == 3      \* number of layer groups, len(children(model))
MaxCalls     == 3      \* calls kept in the history of flag-writing calls
MaxRaw       == 1      \* parameter names carry at most MaxRaw "_raw" suffixes
LoadVals     == 2      \* distinct tensor values stored in a checkpoint
MaxLen       == 2      \* longest sentence given to predict()
MaxN         == 3      \* largest dataset (samples)
MaxTokens    == 4      \* largest evaluation set (tokens of all its sentences)
MaxBatch     == 2      \* largest config.batch_size
MaxEpochs    == 2      \* largest config.nepochs
MaxTopCalls  == 1      \* calls made on one learner in one behaviour

\* ------------------------------------------------------------- utilities
Max(a, b) == IF a > b THEN a ELSE b
Min(a, b) == IF a < b THEN a ELSE b

SeqsUpTo(S, n) == UNION { [1..k -> S] : k \in 0..n }

NoValue == "none"

\* ======================================================== create_mask ====
\* Python slice start of x[l:] on a dimension of the given size.
SliceStart(l, size) == IF l < 0 THEN Max(size + l, 0) ELSE Min(l, size)

\* torch.ones(targets.size()): a mask of shape (size0, size1), 0-based.
OnesMask(size0, size1) == [p \in (0..size0-1) \X (0..size1-1) |-> TRUE]

\* mask.data[l:, i] = 0
ZeroColumnFrom(mask, l, i, size0) ==
    [p \in DOMAIN mask |-> IF p[2] = i /\ p[1] >= SliceStart(l, size0) THEN FALSE ELSE mask[p]]

\* mask.data[i, l:] = 0
ZeroRowFrom(mask, l, i, size1) ==
    [p \in DOMAIN mask |-> IF p[1] = i /\ p[2] >= SliceStart(l, size1) THEN FALSE ELSE mask[p]]

\* Faulty variant of MaskStep: batch_first is ignored and the mask is always
\* cut along dimension 0.
MaskStepSwapped(r, l, i, size0, size1, batch_first) ==
    IF r.raised THEN r
    ELSE IF l < size0
         THEN IF i >= size1 THEN [raised |-> TRUE, mask |-> r.mask]
              ELSE [raised |-> FALSE, mask |-> ZeroColumnFrom(r.mask, l, i, size0)]
         ELSE r

\* One iteration of "for i,l in enumerate(sequence_lengths)"; i is 0-based.
\* An index i outside the batch dimension raises IndexError.
MaskStep(r, l, i, size0, size1, batch_first) ==
    IF r.raised THEN r
    ELSE IF batch_first
         THEN IF l < size1
              THEN IF i >= size0 THEN [raised |-> TRUE, mask |-> r.mask]
                   ELSE [raised |-> FALSE, mask |-> ZeroRowFrom(r.mask, l, i, size1)]
              ELSE r
         ELSE IF l < size0
              THEN IF i >= size1 THEN [raised |-> TRUE, mask |-> r.mask]
                   ELSE [raised |-> FALSE, mask |-> ZeroColumnFrom(r.mask, l, i, size0)]
              ELSE r

RECURSIVE MaskLoop(_, _, _, _, _, _)
MaskLoop(r, sequence_lengths, k, size0, size1, batch_first) ==
    IF k > Len(sequence_lengths) THEN r
    ELSE MaskLoop(MaskStep(r, sequence_lengths[k], k - 1, size0, size1, batch_first),
                  sequence_lengths, k + 1, size0, size1, batch_first)

\* create_mask(sequence_lengths, targets, batch_first).  The mask is moved
\* to the accelerator unconditionally, which raises when there is none.
create_mask(sequence_lengths, size0, size1, batch_first, has_cuda) ==
    IF ~has_cuda
    THEN [raised |-> TRUE, mask |-> OnesMask(size0, size1)]
    ELSE MaskLoop([raised |-> FALSE, mask |-> OnesMask(size0, size1)],
                  sequence_lengths, 1, size0, size1, batch_first)

MaskLengths == SeqsUpTo(-1..(MaskMaxLen + 1), MaskMaxBatch)

InitMaskVars ==
    /\ m_pc = "input"
    /\ m_sequence_lengths \in MaskLengths
    /\ m_size0 \in 1..Max(MaskMaxLen, MaskMaxBatch)
    /\ m_size1 \in 1..Max(MaskMaxLen, MaskMaxBatch)
    /\ m_batch_first \in BOOLEAN
    \* batch dimension within MaskMaxBatch, time dimension within MaskMaxLen
    /\ (IF m_batch_first THEN m_size0 ELSE m_size1) <= MaskMaxBatch
    /\ (IF m_batch_first THEN m_size1 ELSE m_size0) <= MaskMaxLen
    /\ m_cuda \in BOOLEAN
    /\ m_result = NoValue

CallCreateMask ==
    /\ m_pc = "input"
    /\ m_pc' = "done"
    /\ m_result' = create_mask(m_sequence_lengths, m_size0, m_size1, m_batch_first, m_cuda)
    /\ UNCHANGED <<m_sequence_lengths, m_size0, m_size1, m_batch_first, m_cuda>>
    /\ UNCHANGED <<freezeVars, loadVars, mainVars>>

\* ============================================== freeze_to / unfreeze ====
\* get_layer_groups(): children(self.model), an ordered list of groups 0..NGroups-1.
get_layer_groups == 0..(NGroups - 1)

\* c[n:] as a set of indices
GroupsFrom(n) == { g \in get_layer_groups : g >= SliceStart(n, NGroups) }

\* Faulty variant of FreezeFlags: the first loop (all groups off) is missing.
FreezeFlagsKeepOthers(flags, n) ==
    [g \in get_layer_groups |-> IF g \in GroupsFrom(n) THEN TRUE ELSE flags[g]]

\* set_trainable(l, False) for all l in c, then set_trainable(l, True) for l in c[n:]
FreezeFlags(flags, n) ==
    LET allOff == [g \in get_layer_groups |-> FALSE]
    IN  [g \in get_layer_groups |-> IF g \in GroupsFrom(n) THEN TRUE ELSE allOff[g]]

\* self.model.emb: the embedding layer is one of the layer groups, at the
\* position emb_group the model gives it, and emb.weight is its parameter.
EmbWeight == <<"emb.weight", 0>>

\* self.model.emb.weight.requires_grad = False
EmbWeightOff(flags) == [flags EXCEPT ![emb_group] = FALSE]

\* config.embeddings: the pretrained table, different from every initial and
\* every checkpoint value.
embeddings == LoadVals + 1

\* calls: the last MaxCalls calls that wrote requires_grad flags, oldest first.
Remember(c) == IF Len(calls) < MaxCalls THEN Append(calls, c) ELSE Append(Tail(calls), c)

InitFreezeVars ==
    /\ trainable = [g \in get_layer_groups |-> TRUE]
    /\ calls = <<>>
    /\ emb_group \in get_layer_groups

freeze_to(n) ==
    /\ pc = "idle"
    /\ trainable' = FreezeFlags(trainable, n)
    /\ calls' = Remember([op |-> "freeze_to", n |-> n])
    /\ UNCHANGED <<emb_group, maskVars, loadVars, mainVars>>

unfreeze ==
    /\ pc = "idle"
    /\ trainable' = FreezeFlags(trainable, 0)
    /\ calls' = Remember([op |-> "unfreeze", n |-> 0])
    /\ UNCHANGED <<emb_group, maskVars, loadVars, mainVars>>

\* NERLearner.load_emb(): emb.weight becomes a new parameter holding
\* config.embeddings, with requires_grad switched off.  T(a) places the
\* tensor on the accelerator when there is one (its cuda argument defaults
\* to True).
load_emb ==
    /\ pc = "idle"
    /\ cuda_calls' = cuda_calls \cup (IF cuda_available THEN {"T"} ELSE {})
    /\ live' = [live EXCEPT ![EmbWeight] = embeddings]
    /\ trainable' = EmbWeightOff(trainable)
    /\ calls' = Remember([op |-> "load_emb", n |-> 0])
    /\ l_pc' = (IF l_pc = "done" THEN "ready" ELSE l_pc)
    /\ UNCHANGED <<ckpt, l_raised, emb_group, maskVars>>
    /\ UNCHANGED <<inputs, pc, use_cuda, training, disk, call, outcome, ncalls,
                   epoch, gen_train, gen_val, lp, metrics, mode_log>>

CallFreezeTo == \E n \in -1..(NGroups + 1) : freeze_to(n)

\* ==================================================== load_ner_model ====
\* A parameter name is <<base, k>>: the base name followed by k "_raw" suffixes.
Bases     == {"w", "emb.weight"}
LoadNames == Bases \X (0..MaxRaw)
Raw(n)    == <<n[1], n[2] + 1>>          \* n + '_raw'

\* Faulty variant of ReconcileStep: an entry X_raw of the checkpoint is
\* overwritten by X.
ReconcileStepOverwrite(sd, n, names) ==
    IF n \notin names /\ Raw(n) \in names
    THEN [k \in ((DOMAIN sd) \cup {Raw(n)}) \ {n} |-> IF k = Raw(n) THEN sd[n] ELSE sd[k]]
    ELSE sd

\* Body of the loop "for n in list(sd.keys())" for one key n.
ReconcileStep(sd, n, names) ==
    IF n \notin names /\ Raw(n) \in names
    THEN LET sd1 == IF Raw(n) \notin DOMAIN sd
                    THEN [k \in (DOMAIN sd) \cup {Raw(n)} |-> IF k = Raw(n) THEN sd[n] ELSE sd[k]]
                    ELSE sd
         IN  [k \in (DOMAIN sd1) \ {n} |-> sd1[k]]          \* del sd[n]
    ELSE sd

\* The loop over the snapshot list(sd.keys()).  A key the loop adds is in
\* names and a key it deletes is not, so the result does not depend on the
\* order of the snapshot; the fold takes the keys in an arbitrary order.
RECURSIVE Reconcile(_, _, _)
Reconcile(sd, todo, names) ==
    IF todo = {} THEN sd
    ELSE LET n == CHOOSE x \in todo : TRUE
         IN  Reconcile(ReconcileStep(sd, n, names), todo \ {n}, names)

\* m.load_state_dict(sd, strict): with strict an unexpected or a missing key raises.
StateDictRaises(own, sd, strict) == strict /\ DOMAIN sd # DOMAIN own

\* Parameters of own whose value is copied from sd, for the keys in S.
CopyInto(own, sd, S) == [k \in DOMAIN own |-> IF k \in S THEN sd[k] ELSE own[k]]

\* load_ner_model(m, p, strict): the reconciled state dict handed to load_state_dict.
load_ner_model(own, sd) == Reconcile(sd, DOMAIN sd, DOMAIN own)

PartialFns(S, V) == UNION { [D -> V] : D \in SUBSET S }

InitLoadVars ==
    /\ l_pc = "ready"
    /\ \E D \in SUBSET LoadNames : EmbWeight \in D /\ live = [k \in D |-> 0]
    /\ ckpt \in PartialFns(LoadNames, 1..LoadVals)
    /\ l_raised = FALSE

\* NERLearner.load(): load_ner_model(self.model, fn, strict=True).  When
\* load_state_dict raises, the parameters it had copied up to then stay copied.
load ==
    /\ l_pc = "ready"
    /\ l_pc' = "done"
    /\ LET sd == load_ner_model(live, ckpt)
           common == (DOMAIN sd) \cap (DOMAIN live)
       IN  IF StateDictRaises(live, sd, TRUE)
           THEN /\ l_raised' = TRUE
                /\ \E S \in SUBSET common : live' = CopyInto(live, sd, S)
           ELSE /\ l_raised' = FALSE
                /\ live' = CopyInto(live, sd, common)
    /\ UNCHANGED ckpt
    /\ UNCHANGED <<maskVars, freezeVars, mainVars>>

\* ========================================================== NERLearner ====
\* config.vocab_tags, inverted (self.idx_to_tag): tag id -> tag name, and
\* the entity type of each tag ("O" is the outside tag, id 0).
idx_to_tag == (0 :> "O" @@ 1 :> "B-PER")
tag_type   == (0 :> "O" @@ 1 :> "PER")
Tags       == DOMAIN idx_to_tag

\* config.ner_model_path / config.ner_ft_path and get_model_path(name)
ner_model_path == "ner_model"
ner_ft_path    == "ner_ft"
get_model_path(name) == <<"dir_model", name, ".h5">>

\* ---- batching: batch_iter, minibatches, pad_sequences
\* A dataset is a sequence of samples; a sample is its gold tag-id sequence
\* (the word and character ids only feed the network, which is opaque).

\* Faulty variant of NBatches: the last, shorter batch is not counted.
NBatchesFloor(data, bs) == Len(data) \div bs

\* nbatches = (len(train) + batch_size - 1) // batch_size
NBatches(data, bs) == (Len(data) + bs - 1) \div bs

\* minibatches(data, batch_size): consecutive groups of batch_size samples,
\* the last one possibly shorter; a batch is the sequence of its sample indices.
Minibatches(data, bs) ==
    LET n == IF Len(data) = 0 THEN 0 ELSE ((Len(data) - 1) \div bs) + 1
    IN  [b \in 1..n |-> [i \in 1..Min(bs, Len(data) - (b - 1) * bs) |-> (b - 1) * bs + i]]

RECURSIVE MaxLenOf(_)
MaxLenOf(seqs) == IF seqs = <<>> THEN 0 ELSE Max(Len(Head(seqs)), MaxLenOf(Tail(seqs)))

\* pad_sequences(labels, 0): every sequence padded with 0 to the longest one
\* of the batch, and the true lengths.
PadSequences(seqs) ==
    LET m == MaxLenOf(seqs)
    IN  [padded |-> [k \in 1..Len(seqs) |->
                        [j \in 1..m |-> IF j <= Len(seqs[k]) THEN seqs[k][j] ELSE 0]],
         sequence_lengths |-> [k \in 1..Len(seqs) |-> Len(seqs[k])],
         max_len |-> m]

\* Faulty variant of mask_targets: rows cut one position short.
mask_targets_short(padded, sequence_lengths) ==
    [k \in 1..Min(Len(padded), Len(sequence_lengths)) |->
        SubSeq(padded[k], 1, Min(Max(sequence_lengths[k] - 1, 0), Len(padded[k])))]

\* mask_targets(targets, sequence_lengths): row k of the batch cut to l[:p]
mask_targets(padded, sequence_lengths) ==
    [k \in 1..Min(Len(padded), Len(sequence_lengths)) |->
        SubSeq(padded[k], 1, Min(sequence_lengths[k], Len(padded[k])))]

\* ---- CRF.decode(outputs, mask): one tag sequence per sample, as long as
\* the number of valid positions of its mask column; the tags come from the
\* network and are any tags.
MaskColumnSum(mask, i, size0) == Cardinality({t \in 0..(size0 - 1) : mask[<<t, i>>]})

RECURSIVE TagSeqTuples(_)
TagSeqTuples(lens) ==
    IF lens = <<>> THEN {<<>>}
    ELSE { <<s>> \o rest : s \in [1..Head(lens) -> Tags], rest \in TagSeqTuples(Tail(lens)) }

Decode(mask, size0, size1) ==
    TagSeqTuples([i \in 1..size1 |-> MaskColumnSum(mask, i - 1, size0)])

\* ---- get_chunks(seq, vocab_tags): the (type, start, end) spans of seq
RECURSIVE ChunkEnd(_, _)
ChunkEnd(seq, i) ==
    IF i + 1 > Len(seq) \/ tag_type[seq[i + 1]] # tag_type[seq[i]] THEN i
    ELSE ChunkEnd(seq, i + 1)

get_chunks(seq) ==
    { <<tag_type[seq[i]], i - 1, ChunkEnd(seq, i)>> :
        i \in { j \in 1..Len(seq) : /\ tag_type[seq[j]] # "O"
                                    /\ (j = 1 \/ tag_type[seq[j - 1]] # tag_type[seq[j]]) } }

\* ---- metrics of test(); a quotient is kept as numerator and denominator
Frac(n, d) == [num |-> n, den |-> d]
FracIsOne(f)  == f.den # 0 /\ f.num = f.den
FracIsZero(f) == f.den # 0 /\ f.num = 0

\* Faulty variant of Precision: the guard on correct_preds is missing.
PrecisionNoGuard(correct_preds, total_preds) == Frac(correct_preds, total_preds)

\* p = correct_preds / total_preds if correct_preds > 0 else 0
Precision(correct_preds, total_preds) ==
    IF correct_preds > 0 THEN Frac(correct_preds, total_preds) ELSE Frac(0, 1)

\* r = correct_preds / total_correct if correct_preds > 0 else 0
Recall(correct_preds, total_correct) ==
    IF correct_preds > 0 THEN Frac(correct_preds, total_correct) ELSE Frac(0, 1)

\* f1 = 2 * p * r / (p + r) if correct_preds > 0 else 0
F1(correct_preds, p, r) ==
    IF correct_preds > 0
    THEN Frac(2 * p.num * r.num * (p.den * r.den),
              (p.den * r.den) * (p.num * r.den + r.num * p.den))
    ELSE Frac(0, 1)

\* The values of the last finished test(); they are forgotten when the
\* next test() starts.
\* acc = np.mean(accs): nan (denominator 0) for an empty list
Mean(accs) == Frac(Cardinality({i \in 1..Len(accs) : accs[i].eq}), Len(accs))

\* accs += [a==b for (a, b) in zip(lab, lab_pred)], each entry with the
\* sample k and the position j it compares
AccsOf(k, lab, lab_pred) ==
    [j \in 1..Min(Len(lab), Len(lab_pred)) |->
        [k |-> k, j |-> j - 1, eq |-> lab[j] = lab_pred[j]]]

\* for lab, lab_pred in zip(masked_targets, predictions): ...
RECURSIVE EvalLoop(_, _, _, _, _)
EvalLoop(l, batch, labs, preds, i) ==
    IF i > Min(Len(labs), Len(preds)) THEN l
    ELSE LET lab_chunks      == get_chunks(labs[i])
             lab_pred_chunks == get_chunks(preds[i])
         IN  EvalLoop([l EXCEPT !.accs = @ \o AccsOf(batch[i], labs[i], preds[i]),
                                !.correct_preds = @ + Cardinality(lab_chunks \cap lab_pred_chunks),
                                !.total_preds   = @ + Cardinality(lab_pred_chunks),
                                !.total_correct = @ + Cardinality(lab_chunks)],
                      batch, labs, preds, i + 1)

\* c_ = sum([p[i] == mt[i] for p, mt in zip(predictions, masked_targets) for i in range(len(p))])
RECURSIVE CountCorrect(_, _, _)
CountCorrect(preds, mts, i) ==
    IF i > Min(Len(preds), Len(mts)) THEN 0
    ELSE Cardinality({j \in 1..Len(preds[i]) : preds[i][j] = mts[i][j]})
         + CountCorrect(preds, mts, i + 1)

\* if inputs['word_ids'].shape[0] == 1: skip the batch
IsDegenerate(batch) == Len(batch) = 1

\* ---- state of the loops of train() and test()
\* An optional value is <<>> (Python's None) or <<v>>.
None == "None"
Nothing == <<>>
Some(v) == <<v>>
NewLocals ==
    [batch_idx |-> 0, visited |-> <<>>, processed |-> <<>>,
     correct |-> 0, total |-> 0,
     accs |-> <<>>, correct_preds |-> 0, total_correct |-> 0, total_preds |-> 0,
     total_step |-> Nothing, exact |-> TRUE]

NoMetrics == [p |-> None, r |-> None, f1 |-> None, acc |-> None]
NoModeLog == [method |-> None, before |-> Nothing, after |-> Nothing]
NewCall(name, ft) == [name |-> name, fine_tune |-> ft, epochs |-> 0, passes |-> <<>>, saved |-> <<>>]

\* The dataset test() reads: fit's dev set or evaluate's test set.
ValData == IF call.name = "evaluate" THEN test_data ELSE dev_data

\* next(generator) on the endless generator of batch_iter: position g is the
\* index of the batch it yields next, in the cycle over minibatches(data).
GenAdvance(g, n) == (g + 1) % n

\* NERLearner.__init__
Construct ==
    /\ pc = "new"
    /\ use_cuda' = cuda_available
    /\ cuda_calls' = (IF cuda_available THEN {"model.cuda"} ELSE {}) \cup {"criterion.cuda"}
    /\ IF cuda_available
       THEN pc' = "idle" /\ outcome' = "ok"
       ELSE pc' = "dead" /\ outcome' = "CudaError"
    /\ UNCHANGED <<inputs, training, disk, call, ncalls, epoch, gen_train, gen_val,
                   lp, metrics, mode_log, otherVars>>

\* fit(train, dev, epochs, fine_tune) up to its first self.train(...) call,
\* and the first lines of train(): model.train(), emb.weight.requires_grad
\* switched off, counters reset.
Fit(epochs, ft) ==
    /\ pc = "idle" /\ ncalls < MaxTopCalls
    /\ ncalls' = ncalls + 1
    /\ call' = [NewCall("fit", ft) EXCEPT !.epochs = IF epochs = 0 THEN nepochs ELSE epochs]
    /\ outcome' = "running"
    /\ epoch' = 0 /\ gen_train' = 0 /\ gen_val' = 0
    /\ training' = TRUE
    /\ trainable' = EmbWeightOff(trainable)
    /\ calls' = Remember([op |-> "train", n |-> 0])
    /\ lp' = NewLocals
    /\ pc' = "train"
    /\ UNCHANGED <<inputs, use_cuda, cuda_calls, disk, metrics, mode_log, emb_group,
                   maskVars, loadVars>>

CallFit == \E epochs \in 0..1, ft \in BOOLEAN : Fit(epochs, ft)

\* One iteration of the loop of train() with batch_idx < nbatches_train.
TrainBatch ==
    /\ pc = "train"
    /\ Minibatches(train_data, batch_size) # <<>>
    /\ lp.batch_idx # NBatches(train_data, batch_size)
    /\ LET batch  == Minibatches(train_data, batch_size)[gen_train + 1]
           l1     == [lp EXCEPT !.batch_idx = @ + 1, !.visited = Append(@, gen_train)]
           padded == PadSequences([i \in 1..Len(batch) |-> train_data[batch[i]]])
           mask   == create_mask(padded.sequence_lengths, padded.max_len, Len(batch),
                                 FALSE, cuda_available)
           t_     == Cardinality({q \in DOMAIN mask.mask : mask.mask[q]})
           mts    == mask_targets(padded.padded, padded.sequence_lengths)
       IN  /\ gen_train' = GenAdvance(gen_train, Len(Minibatches(train_data, batch_size)))
           /\ IF IsDegenerate(batch)
              THEN /\ lp' = l1
                   /\ UNCHANGED <<pc, outcome, cuda_calls>>
              ELSE /\ cuda_calls' = cuda_calls \cup (IF use_cuda THEN {"T"} ELSE {})
                                               \cup {"create_mask"}
                   /\ IF mask.raised
                      THEN /\ pc' = "idle" /\ outcome' = "CudaError" /\ lp' = l1
                      ELSE \E preds \in Decode(mask.mask, padded.max_len, Len(batch)) :
                              LET c_ == CountCorrect(preds, mts, 1)
                              IN  /\ lp' = [l1 EXCEPT !.processed = Append(@, gen_train),
                                                      !.total = @ + t_,
                                                      !.correct = @ + c_]
                                  /\ IF t_ = 0
                                     THEN pc' = "idle" /\ outcome' = "ZeroDivisionError"
                                     ELSE UNCHANGED <<pc, outcome>>
    /\ UNCHANGED <<inputs, use_cuda, training, disk, call, ncalls, epoch, gen_val,
                   metrics, mode_log, otherVars>>

\* The generator never yields for an empty dataset: next() does not return.
TrainHang ==
    /\ pc = "train"
    /\ Minibatches(train_data, batch_size) = <<>>
    /\ pc' = "hang"
    /\ UNCHANGED <<inputs, use_cuda, cuda_calls, training, disk, call, outcome, ncalls,
                   epoch, gen_train, gen_val, lp, metrics, mode_log, otherVars>>

\* The iteration of train() that takes one more batch from the generator,
\* finds batch_idx == nbatches_train and breaks; the accuracy log line; and,
\* back in fit(), the call of test() up to its loop: model.eval(), counters reset.
TrainEnd ==
    /\ pc = "train"
    /\ Minibatches(train_data, batch_size) # <<>>
    /\ lp.batch_idx = NBatches(train_data, batch_size)
    /\ gen_train' = GenAdvance(gen_train, Len(Minibatches(train_data, batch_size)))
    /\ call' = [call EXCEPT !.passes = Append(@, [kind |-> "train", visited |-> lp.visited,
                                                  processed |-> lp.processed])]
    /\ IF lp.total = 0
       THEN /\ pc' = "idle" /\ outcome' = "ZeroDivisionError"
            /\ UNCHANGED <<training, lp, mode_log>>
       ELSE /\ pc' = "test"
            /\ mode_log' = [method |-> "test", before |-> Some(training), after |-> Nothing]
            /\ training' = FALSE
            /\ lp' = NewLocals
            /\ UNCHANGED outcome
    /\ metrics' = NoMetrics
    /\ UNCHANGED <<inputs, use_cuda, cuda_calls, disk, ncalls, epoch, gen_val, otherVars>>

\* evaluate(test): a new generator over the test set, then test() up to its loop.
Evaluate ==
    /\ pc = "idle" /\ ncalls < MaxTopCalls
    /\ ncalls' = ncalls + 1
    /\ call' = NewCall("evaluate", FALSE)
    /\ outcome' = "running"
    /\ gen_val' = 0
    /\ mode_log' = [method |-> "test", before |-> Some(training), after |-> Nothing]
    /\ training' = FALSE
    /\ lp' = NewLocals
    /\ pc' = "test"
    /\ metrics' = NoMetrics
    /\ UNCHANGED <<inputs, use_cuda, cuda_calls, disk, epoch, gen_train, otherVars>>

\* One iteration of the loop of test() with batch_idx < nbatches_val.
TestBatch ==
    /\ pc = "test"
    /\ Minibatches(ValData, batch_size) # <<>>
    /\ lp.batch_idx # NBatches(ValData, batch_size)
    /\ LET batch  == Minibatches(ValData, batch_size)[gen_val + 1]
           l1     == [lp EXCEPT !.batch_idx = @ + 1, !.visited = Append(@, gen_val)]
           padded == PadSequences([i \in 1..Len(batch) |-> ValData[batch[i]]])
           mask   == create_mask(padded.sequence_lengths, padded.max_len, Len(batch),
                                 FALSE, cuda_available)
           labs   == mask_targets(padded.padded, padded.sequence_lengths)
       IN  /\ gen_val' = GenAdvance(gen_val, Len(Minibatches(ValData, batch_size)))
           /\ IF IsDegenerate(batch)
              THEN /\ lp' = l1
                   /\ UNCHANGED <<pc, outcome, cuda_calls>>
              ELSE /\ cuda_calls' = cuda_calls \cup (IF use_cuda THEN {"T"} ELSE {})
                                               \cup {"create_mask"}
                   /\ IF mask.raised
                      THEN /\ pc' = "idle" /\ outcome' = "CudaError" /\ lp' = l1
                      ELSE /\ \E preds \in Decode(mask.mask, padded.max_len, Len(batch)) :
                                lp' = EvalLoop([l1 EXCEPT !.processed = Append(@, gen_val),
                                                          !.total_step = Some(lp.batch_idx),
                                                          !.exact = @ /\ preds = labs],
                                               batch, labs, preds, 1)
                           /\ UNCHANGED <<pc, outcome>>
    /\ UNCHANGED <<inputs, use_cuda, training, disk, call, ncalls, epoch, gen_train,
                   metrics, mode_log, otherVars>>

TestHang ==
    /\ pc = "test"
    /\ Minibatches(ValData, batch_size) = <<>>
    /\ pc' = "hang"
    /\ UNCHANGED <<inputs, use_cuda, cuda_calls, training, disk, call, outcome, ncalls,
                   epoch, gen_train, gen_val, lp, metrics, mode_log, otherVars>>

\* The iteration of test() that takes one more batch, finds
\* batch_idx == nbatches_val and breaks; the metrics and the log line; and,
\* back in fit(), either the next epoch up to the loop of train() or the save.
TestEnd ==
    /\ pc = "test"
    /\ Minibatches(ValData, batch_size) # <<>>
    /\ lp.batch_idx = NBatches(ValData, batch_size)
    /\ gen_val' = GenAdvance(gen_val, Len(Minibatches(ValData, batch_size)))
    /\ LET p == Precision(lp.correct_preds, lp.total_preds)
           r == Recall(lp.correct_preds, lp.total_correct)
       IN  metrics' = [p |-> p, r |-> r, f1 |-> F1(lp.correct_preds, p, r), acc |-> Mean(lp.accs)]
    /\ mode_log' = [mode_log EXCEPT !.after = Some(training)]
    /\ LET done == [call EXCEPT !.passes = Append(@, [kind |-> "test", visited |-> lp.visited,
                                                      processed |-> lp.processed])]
           path == get_model_path(IF call.fine_tune THEN ner_ft_path ELSE ner_model_path)
       IN  IF lp.total_step = Nothing
           THEN /\ pc' = "idle" /\ outcome' = "TypeError" /\ call' = done
                /\ UNCHANGED <<training, lp, epoch, disk, freezeVars>>
           ELSE IF call.name = "evaluate"
           THEN /\ pc' = "idle" /\ outcome' = "ok" /\ call' = done
                /\ UNCHANGED <<training, lp, epoch, disk, freezeVars>>
           ELSE IF epoch + 1 < call.epochs
           THEN /\ epoch' = epoch + 1
                /\ training' = TRUE
                /\ trainable' = EmbWeightOff(trainable)
                /\ calls' = Remember([op |-> "train", n |-> 0])
                /\ lp' = NewLocals
                /\ pc' = "train" /\ call' = done
                /\ UNCHANGED <<outcome, disk, emb_group>>
           ELSE /\ call' = [done EXCEPT !.saved = Append(@, path)]
                /\ disk' = disk \cup {path}
                /\ pc' = "idle" /\ outcome' = "ok"
                /\ UNCHANGED <<training, lp, epoch, freezeVars>>
    /\ UNCHANGED <<inputs, use_cuda, cuda_calls, ncalls, gen_train, maskVars, loadVars>>

\* fine_tune(): self.fit(epochs=1, fine_tune=True) passes neither train nor
\* dev, which fit() requires: the call raises TypeError before fit() runs.
FineTune ==
    /\ pc = "idle" /\ ncalls < MaxTopCalls
    /\ ncalls' = ncalls + 1
    /\ call' = NewCall("fine_tune", TRUE)
    /\ outcome' = "TypeError"
    /\ UNCHANGED <<inputs, pc, use_cuda, cuda_calls, training, disk, epoch, gen_train, gen_val,
                   lp, metrics, mode_log, otherVars>>

\* predict(words_raw) -> predict_batch([words]) for a sentence of n words
Predict(n) ==
    /\ pc = "idle" /\ ncalls < MaxTopCalls
    /\ ncalls' = ncalls + 1
    /\ call' = [NewCall("predict", FALSE) EXCEPT !.epochs = n]
    /\ mode_log' = [method |-> "predict_batch", before |-> Some(training), after |-> Some(FALSE)]
    /\ training' = FALSE
    /\ cuda_calls' = cuda_calls \cup (IF use_cuda THEN {"T"} ELSE {})
    /\ outcome' = "ok"
    /\ UNCHANGED <<inputs, pc, use_cuda, disk, epoch, gen_train, gen_val, lp, metrics, otherVars>>

CallPredict == \E n \in 1..MaxLen : Predict(n)

\* save(name=None)
Save ==
    /\ pc = "idle" /\ ncalls < MaxTopCalls
    /\ ncalls' = ncalls + 1
    /\ call' = [NewCall("save", FALSE) EXCEPT !.saved = <<get_model_path(ner_model_path)>>]
    /\ disk' = disk \cup {get_model_path(ner_model_path)}
    /\ outcome' = "ok"
    /\ UNCHANGED <<inputs, pc, use_cuda, cuda_calls, training, epoch, gen_train, gen_val,
                   lp, metrics, mode_log, otherVars>>

\* ---- inputs
\* Sentences are not empty.  DataSets(t, n): the datasets of at most n
\* sentences with at most t tokens in all, every gold tag sequence included.
RECURSIVE DataSets(_, _)
DataSets(t, n) ==
    {<<>>} \cup
    (IF n = 0 THEN {}
     ELSE UNION { { <<s>> \o rest : s \in [1..l -> Tags], rest \in DataSets(t - l, n - 1) } :
                  l \in 1..t })
EvalSets  == DataSets(MaxTokens, MaxN)
\* For the life cycle only the sizes of the batches matter: its datasets
\* hold one-token sentences tagged "O".
LifeSets  == SeqsUpTo({<<0>>}, MaxN)

InitLearner ==
    /\ pc = "new" /\ use_cuda = FALSE /\ cuda_calls = {} /\ training = TRUE
    /\ disk = {} /\ call = NewCall(None, FALSE) /\ outcome = None /\ ncalls = 0
    /\ epoch = 0 /\ gen_train = 0 /\ gen_val = 0 /\ lp = NewLocals
    /\ metrics = NoMetrics /\ mode_log = NoModeLog

InitLifeVars ==
    /\ cuda_available \in BOOLEAN
    /\ batch_size \in 1..MaxBatch
    /\ nepochs \in 1..MaxEpochs
    /\ train_data \in LifeSets
    /\ dev_data \in LifeSets
    /\ test_data = dev_data
    /\ InitLearner

InitEvalVars ==
    /\ cuda_available \in BOOLEAN
    /\ batch_size \in 1..MaxBatch
    /\ nepochs = 1
    /\ train_data = <<>>
    /\ dev_data = <<>>
    /\ test_data \in EvalSets
    /\ InitLearner

PinData ==
    /\ batch_size = 1 /\ nepochs = 1
    /\ train_data = <<>> /\ dev_data = <<>> /\ test_data = <<>>
PinMain ==
    /\ cuda_available = FALSE /\ PinData /\ InitLearner

\* ====================================================== specifications ====
\* Each specification runs one part of the module; the other parts stay idle.
PinMask ==
    /\ m_pc = "off" /\ m_sequence_lengths = <<>> /\ m_size0 = 1 /\ m_size1 = 1
    /\ m_batch_first = FALSE /\ m_cuda = FALSE /\ m_result = NoValue
PinFreeze ==
    /\ trainable = [g \in get_layer_groups |-> TRUE] /\ calls = <<>> /\ emb_group = 0
PinLoad ==
    /\ l_pc = "off" /\ live = [k \in {EmbWeight} |-> 0] /\ ckpt = <<>> /\ l_raised = FALSE

InitMask == InitMaskVars /\ PinFreeze /\ PinLoad /\ PinMain
NextMask == CallCreateMask
SpecMask == InitMask /\ [][NextMask]_vars

\* The flag-writing methods on one learner, from its construction on.
InitFreeze ==
    /\ InitFreezeVars /\ PinMask /\ PinLoad
    /\ cuda_available \in BOOLEAN /\ PinData /\ InitLearner
NextFreeze == Construct \/ CallFreezeTo \/ unfreeze \/ load_emb
SpecFreeze == InitFreeze /\ [][NextFreeze]_vars

InitLoad == InitLoadVars /\ PinMask /\ PinFreeze /\ PinMain
NextLoad == load
SpecLoad == InitLoad /\ [][NextLoad]_vars

\* test() on an evaluation set: construction, evaluate(test) and the loop of test().
InitEval == InitEvalVars /\ PinMask /\ PinFreeze /\ PinLoad
NextEval == Construct \/ Evaluate \/ TestBatch \/ TestHang \/ TestEnd
SpecEval == InitEval /\ [][NextEval]_vars

\* The life cycle of one learner.
Init == InitLifeVars /\ PinMask /\ InitFreezeVars /\ PinLoad
Next ==
    \/ Construct
    \/ CallFit \/ TrainBatch \/ TrainHang \/ TrainEnd
    \/ Evaluate \/ TestBatch \/ TestHang \/ TestEnd
    \/ FineTune \/ CallPredict \/ Save
Spec == Init /\ [][Next]_vars

\* ============================================================== claims ====
\* ---- C1
MaskBatchDim == IF m_batch_first THEN m_size0 ELSE m_size1
MaskTimeDim  == IF m_batch_first THEN m_size1 ELSE m_size0
MaskAt(i, t) == IF m_batch_first THEN m_result.mask[<<i, t>>] ELSE m_result.mask[<<t, i>>]

\* C1: whenever create_mask returns a mask, for both orientations, every
\* sample i that has a length l = sequence_lengths[i] with 0 <= l <= max_len
\* and every position t: the mask entry of (i, t) is true exactly when t < l
\* (mask[t, i] time-major, mask[i, t] batch-major).
C1_MaskCorrect ==
    (m_pc = "done" /\ ~m_result.raised) =>
        \A k \in 1..Len(m_sequence_lengths) :
            LET l == m_sequence_lengths[k]
                i == k - 1
            IN  (i < MaskBatchDim /\ 0 <= l /\ l <= MaskTimeDim) =>
                    \A t \in 0..(MaskTimeDim - 1) : MaskAt(i, t) <=> (t < l)

\* A batch-major mask was built for two samples, one of them shorter than
\* max_len, so that part of its row is padding.
C1_Witness ==
    /\ m_pc = "done" /\ ~m_result.raised /\ m_batch_first
    /\ m_size0 = 2 /\ m_size1 = 2
    /\ m_sequence_lengths = <<2, 1>>
    /\ m_result.mask[<<1, 0>>] /\ ~m_result.mask[<<1, 1>>]

\* ---- C4
LastCall == calls[Len(calls)]

\* C4: after any sequence of freeze_to(n) / unfreeze() calls the trainable
\* flags depend only on the last call: after freeze_to(n), 0 <= n <= NGroups,
\* group g is trainable exactly when g >= n; after unfreeze() every group is
\* trainable (so freeze_to(n) followed by unfreeze() restores all groups),
\* whatever load_emb() calls came before the last call.
C4_FreezeLastCall ==
    (calls # <<>>) =>
        /\ (LastCall.op = "freeze_to" /\ 0 <= LastCall.n /\ LastCall.n <= NGroups) =>
               \A g \in get_layer_groups : trainable[g] <=> (g >= LastCall.n)
        /\ (LastCall.op = "unfreeze") =>
               \A g \in get_layer_groups : trainable[g]

\* freeze_to(n) with 0 < n froze a group, then unfreeze() was called.
C4_Witness ==
    /\ Len(calls) >= 2
    /\ calls[Len(calls) - 1].op = "freeze_to"
    /\ calls[Len(calls) - 1].n \in 1..NGroups
    /\ LastCall.op = "unfreeze"
    /\ \A g \in get_layer_groups : trainable[g]

\* ---- C5
\* X is in the checkpoint, X_raw is a live parameter and X is not.
Renamed(X) == X \in DOMAIN ckpt /\ Raw(X) \in DOMAIN live /\ X \notin DOMAIN live

\* The strict load succeeds exactly when every live parameter has an entry
\* (its own, or X for a live X_raw) and every checkpoint entry has a
\* parameter (its own, or X_raw for an entry X).
Reconcilable ==
    /\ \A n \in DOMAIN live :
          n \in DOMAIN ckpt \/ \E X \in DOMAIN ckpt : Renamed(X) /\ Raw(X) = n
    /\ \A n \in DOMAIN ckpt : n \in DOMAIN live \/ Raw(n) \in DOMAIN live

\* C5 as stated: for every live model with X_raw and without X and every
\* checkpoint with an entry X, the strict load succeeds, X_raw then holds
\* the checkpoint's value of X, and every exactly matching parameter holds
\* its own checkpoint value.
C5_Original ==
    (l_pc = "done" /\ \E X \in DOMAIN ckpt : Renamed(X)) =>
        /\ ~l_raised
        /\ \A X \in DOMAIN ckpt : Renamed(X) => live[Raw(X)] = ckpt[X]
        /\ \A n \in (DOMAIN ckpt) \cap (DOMAIN live) : live[n] = ckpt[n]

\* C5 amended: the strict load succeeds exactly when the names are
\* reconcilable; after a successful load every exactly matching parameter
\* holds its own checkpoint value (X_raw included, when the checkpoint has
\* both X and X_raw), and X_raw holds the checkpoint's value of X when the
\* checkpoint has X and no X_raw.
C5_Reconciliation ==
    (l_pc = "done") =>
        /\ (~l_raised) <=> Reconcilable
        /\ (~l_raised) =>
              /\ \A n \in (DOMAIN ckpt) \cap (DOMAIN live) : live[n] = ckpt[n]
              /\ \A X \in DOMAIN ckpt :
                    (Renamed(X) /\ Raw(X) \notin DOMAIN ckpt) => live[Raw(X)] = ckpt[X]

\* A checkpoint with w and emb.weight was loaded into a model with w_raw and
\* emb.weight: w_raw got the value of w and emb.weight its own.
C5_Witness ==
    /\ l_pc = "done" /\ ~l_raised
    /\ DOMAIN live = {<<"w", 1>>, EmbWeight}
    /\ DOMAIN ckpt = {<<"w", 0>>, EmbWeight}
    /\ ckpt[<<"w", 0>>] = 2 /\ ckpt[EmbWeight] = 1
    /\ live[<<"w", 1>>] = 2 /\ live[EmbWeight] = 1

\* ---- C2
\* evaluate() has returned or raised after the loop and the metrics of test().
TestDone == pc = "idle" /\ call.name = "evaluate" /\ Len(call.passes) = 1

\* The positions (sample k, index j) that contributed an entry to accs.
Counted == { <<lp.accs[i].k, lp.accs[i].j>> : i \in 1..Len(lp.accs) }
CountedOnce == Cardinality(Counted) = Len(lp.accs)

\* The valid positions of a dataset: j < sequence_lengths[k].
ValidPositions(data) == UNION { { <<k, j>> : j \in 0..(Len(data[k]) - 1) } : k \in 1..Len(data) }

\* Size of the batch that holds sample k (batches of bs consecutive samples).
BatchSizeOf(k, n, bs) == Min(bs, n - ((k - 1) \div bs) * bs)
InSkippedBatch(k) == BatchSizeOf(k, Len(test_data), batch_size) = 1

\* C2 as stated: the accuracy a finished test() reports is taken over
\* exactly the valid positions of the whole evaluation set: (k, j)
\* contributes if and only if j < sequence_lengths[k].
C2_Original ==
    (TestDone /\ outcome = "ok") => (Counted = ValidPositions(test_data) /\ CountedOnce)

\* C2 amended: (k, j) contributes, once, if and only if j < sequence_lengths[k]
\* and sample k is not alone in its batch; no padded position is counted,
\* and the valid positions left out are exactly those of the samples of
\* size-1 batches, which test() skips.
C2_AccuracyPositions ==
    TestDone =>
        /\ Counted = { q \in ValidPositions(test_data) : ~InSkippedBatch(q[1]) }
        /\ CountedOnce

\* Three sentences of 2, 1 and 1 tokens in batches of 2: the second is
\* padded, the third is alone in its batch.
C2_Witness ==
    /\ TestDone /\ batch_size = 2
    /\ Len(test_data) = 3 /\ Len(test_data[1]) = 2 /\ Len(test_data[2]) = 1
    /\ Counted = {<<1, 0>>, <<1, 1>>, <<2, 0>>}

\* ---- C3
RECURSIVE SumChunks(_, _)
SumChunks(data, k) ==
    IF k > Len(data) THEN 0
    ELSE (IF BatchSizeOf(k, Len(data), batch_size) = 1 THEN 0
          ELSE Cardinality(get_chunks(data[k]))) + SumChunks(data, k + 1)

\* Gold chunks of the samples test() decodes.
GoldChunks == SumChunks(test_data, 1)
AllDecoded == Len(test_data) > 0 /\ \A k \in 1..Len(test_data) : ~InSkippedBatch(k)

\* C3 as stated: when every sample is decoded to exactly its gold tags,
\* test() computes precision = recall = F1 = 1 and token accuracy = 1.
C3_Original ==
    (TestDone /\ AllDecoded /\ lp.exact) =>
        /\ FracIsOne(metrics.p) /\ FracIsOne(metrics.r) /\ FracIsOne(metrics.f1)
        /\ FracIsOne(metrics.acc)

\* C3 amended: when every decoded sample is decoded to exactly its gold
\* tags, the counts are correct_preds = total_preds = total_correct = the
\* number of gold chunks of the decoded samples; precision = recall = F1 = 1
\* when that number is positive and precision = recall = F1 = 0 when it is
\* zero; token accuracy = 1 when at least one batch was decoded.
C3_ExactMatch ==
    (TestDone /\ lp.exact) =>
        /\ lp.correct_preds = GoldChunks /\ lp.total_preds = GoldChunks
        /\ lp.total_correct = GoldChunks
        /\ (GoldChunks > 0) =>
              (FracIsOne(metrics.p) /\ FracIsOne(metrics.r) /\ FracIsOne(metrics.f1))
        /\ (GoldChunks = 0) =>
              (FracIsZero(metrics.p) /\ FracIsZero(metrics.r) /\ FracIsZero(metrics.f1))
        /\ (lp.processed # <<>>) => FracIsOne(metrics.acc)

\* Two sentences [B-PER, O] and [B-PER], the second padded to length 2,
\* decoded exactly: two chunks, all metrics 1.
C3_Witness ==
    /\ TestDone /\ lp.exact /\ outcome = "ok"
    /\ test_data = << <<1, 0>>, <<1>> >> /\ batch_size = 2
    /\ lp.correct_preds = 2
    /\ FracIsOne(metrics.f1) /\ FracIsOne(metrics.acc)

\* ---- C6
\* C6: the mode flag of the model right after a test(), evaluate(),
\* predict() or predict_batch() call equals the flag right before it.
C6_ModeRestored ==
    (mode_log.after # Nothing) => mode_log.after = mode_log.before

\* ---- C7
\* C7: fine_tune() runs one train pass then one test pass, then saves once,
\* to the path of config.ner_ft_path, which is not the main checkpoint path.
C7_FineTuneSaves ==
    (call.name = "fine_tune" /\ pc = "idle") =>
        /\ outcome = "ok"
        /\ [i \in 1..Len(call.passes) |-> call.passes[i].kind] = <<"train", "test">>
        /\ call.saved = <<get_model_path(ner_ft_path)>>
        /\ get_model_path(ner_ft_path) # get_model_path(ner_model_path)

\* ---- C8
PassData(pass) == IF pass.kind = "train" THEN train_data ELSE ValData
SizeOfBatch(data, b) == Min(batch_size, Len(data) - b * batch_size)

\* C8: in train() and test() a batch of one sample is skipped (never
\* processed), the loop goes on to the later batches, and the call of
\* fit() / evaluate() finishes without raising, whatever the dataset and
\* the batch size.
C8_DegenerateRecoverable ==
    /\ \A i \in 1..Len(call.passes) :
          LET pass == call.passes[i]
          IN  /\ \A x \in 1..Len(pass.processed) :
                    SizeOfBatch(PassData(pass), pass.processed[x]) # 1
              /\ Len(pass.visited) = Len(Minibatches(PassData(pass), batch_size))
    /\ (pc = "idle" /\ call.name \in {"fit", "evaluate"}) => outcome = "ok"

\* ---- C9
\* C9: without an accelerator the learner is constructed on the CPU path:
\* construction does not fail and nothing asks for the accelerator; and
\* whatever is placed on the accelerator later is placed there because
\* use_cuda was set at construction.
C9_CpuFallback ==
    /\ (~cuda_available) => (pc # "dead" /\ cuda_calls = {})
    /\ (cuda_calls # {}) => use_cuda

\* ---- C10
IsEachBatchOnce(visited, data) ==
    LET n == Len(Minibatches(data, batch_size))
    IN  /\ Len(visited) = n
        /\ { visited[i] : i \in 1..Len(visited) } = 0..(n - 1)

\* C10: every finished pass of train() and of test(), in every epoch of
\* fit(), took each batch of its dataset from the shared generator exactly
\* once (as a processed batch or as a skipped batch of one sample): none
\* twice, none left out.
C10_EachBatchOnce ==
    \A i \in 1..Len(call.passes) :
        IsEachBatchOnce(call.passes[i].visited, PassData(call.passes[i]))

\* Second epoch of a fit() over 3 training samples in batches of 2: its
\* training pass started at the second batch and wrapped around.
C10_Witness ==
    /\ call.name = "fit" /\ Len(call.passes) >= 3
    /\ Len(train_data) = 3 /\ batch_size = 2
    /\ call.passes[3].kind = "train"
    /\ call.passes[3].visited = <<1, 0>>

====
